---- MODULE Spec2Model ----
(***************************************************************************)
(* The response pipeline of the travel voice chatbot (src/app.py): text    *)
(* generation with a keyword fallback, speech synthesis, audio download    *)
(* and persistence of the audio file.                                      *)
(*                                                                         *)
(* Representation of Python values: a string is a sequence of characters  *)
(* (one-character TLA+ strings) where its characters matter (utterances,   *)
(* keywords, URLs, keys) and a one-element sequence holding the whole text *)
(* where only its identity and emptiness matter (replies, filenames'       *)
(* parts).  The empty string is << >>, None is the sentinel below, and a   *)
(* value is "truthy" when it is neither.                                   *)
(***************************************************************************)
EXTENDS Integers, Sequences, FiniteSets, TLC

None == <<"None">>

Truthy(x) == x # None /\ x # << >>

(***************************************************************************)
(* Bounds of the model.                                                    *)
(***************************************************************************)
MaxTurns == 2
MaxFrags == 2

(***************************************************************************)
(* str.lower() and the substring test `kw in s`.                           *)
(***************************************************************************)
UpperToLower ==
  ("A" :> "a") @@ ("B" :> "b") @@ ("C" :> "c") @@ ("D" :> "d") @@ ("E" :> "e") @@
  ("F" :> "f") @@ ("G" :> "g") @@ ("H" :> "h") @@ ("I" :> "i") @@ ("J" :> "j") @@
  ("K" :> "k") @@ ("L" :> "l") @@ ("M" :> "m") @@ ("N" :> "n") @@ ("O" :> "o") @@
  ("P" :> "p") @@ ("Q" :> "q") @@ ("R" :> "r") @@ ("S" :> "s") @@ ("T" :> "t") @@
  ("U" :> "u") @@ ("V" :> "v") @@ ("W" :> "w") @@ ("X" :> "x") @@ ("Y" :> "y") @@
  ("Z" :> "z")

LowerChar(c) == IF c \in DOMAIN UpperToLower THEN UpperToLower[c] ELSE c

Lower(s) == [i \in 1..Len(s) |-> LowerChar(s[i])]

Contains(kw, s) ==
  \E i \in 1..(Len(s) - Len(kw) + 1) : SubSeq(s, i, i + Len(kw) - 1) = kw

(***************************************************************************)
(* The trigger keywords of get_fallback_response.                          *)
(***************************************************************************)
kw_memorable == <<"m", "e", "m", "o", "r", "a", "b", "l", "e">>
kw_experience == <<"e", "x", "p", "e", "r", "i", "e", "n", "c", "e">>
kw_hidden == <<"h", "i", "d", "d", "e", "n">>
kw_gem == <<"g", "e", "m">>
kw_prepare == <<"p", "r", "e", "p", "a", "r", "e">>
kw_culture == <<"c", "u", "l", "t", "u", "r", "e">>
kw_adventure == <<"a", "d", "v", "e", "n", "t", "u", "r", "e">>
kw_sport == <<"s", "p", "o", "r", "t">>
kw_one_country == <<"o", "n", "e", " ", "c", "o", "u", "n", "t", "r", "y">>
kw_rest_of_your_life ==
  <<"r", "e", "s", "t", " ", "o", "f", " ", "y", "o", "u", "r", " ", "l", "i", "f", "e">>

FALLBACK_RESPONSES ==
  [k \in {"travel experience", "hidden gem", "prepare for trip",
          "adventure sport", "one country"} |->
     CASE k = "travel experience" ->
            <<"One of my most memorable travel experiences was hiking through the Swiss Alps at sunrise. The way the light hit the snow-capped peaks was absolutely magical!">>
       [] k = "hidden gem" ->
            <<"I discovered this incredible little island in Thailand called Koh Lipe. It's not as crowded as the other islands, with crystal clear water and amazing snorkeling right off the beach!">>
       [] k = "prepare for trip" ->
            <<"I always research local customs first, learn a few basic phrases in the local language, pack light but smart, and make sure to try the street food - it's often the most authentic!">>
       [] k = "adventure sport" ->
            <<"I tried paragliding in Nepal over the Himalayas - absolutely breathtaking views and such an adrenaline rush!">>
       [] k = "one country" ->
            <<"That's tough! I'd probably choose Japan - it has this perfect blend of ancient tradition and futuristic innovation, amazing food, and the people are incredibly kind.">>]

GENERIC_REPLY ==
  <<"I'd love to share more about my travel adventures! While I'm having some technical difficulties with my full capabilities, I can tell you about amazing destinations, travel tips, or cultural experiences. What would you like to know?">>

get_fallback_response_hidden_first(message) ==
  LET message_lower == Lower(message) IN
  IF Contains(kw_hidden, message_lower) \/ Contains(kw_gem, message_lower)
    THEN FALLBACK_RESPONSES["hidden gem"]
  ELSE IF Contains(kw_memorable, message_lower) \/ Contains(kw_experience, message_lower)
    THEN FALLBACK_RESPONSES["travel experience"]
  ELSE IF Contains(kw_prepare, message_lower) \/ Contains(kw_culture, message_lower)
    THEN FALLBACK_RESPONSES["prepare for trip"]
  ELSE IF Contains(kw_adventure, message_lower) \/ Contains(kw_sport, message_lower)
    THEN FALLBACK_RESPONSES["adventure sport"]
  ELSE IF Contains(kw_one_country, message_lower)
          \/ Contains(kw_rest_of_your_life, message_lower)
    THEN FALLBACK_RESPONSES["one country"]
  ELSE GENERIC_REPLY

get_fallback_response(message) ==
  LET message_lower == Lower(message) IN
  IF Contains(kw_memorable, message_lower) \/ Contains(kw_experience, message_lower)
    THEN FALLBACK_RESPONSES["travel experience"]
  ELSE IF Contains(kw_hidden, message_lower) \/ Contains(kw_gem, message_lower)
    THEN FALLBACK_RESPONSES["hidden gem"]
  ELSE IF Contains(kw_prepare, message_lower) \/ Contains(kw_culture, message_lower)
    THEN FALLBACK_RESPONSES["prepare for trip"]
  ELSE IF Contains(kw_adventure, message_lower) \/ Contains(kw_sport, message_lower)
    THEN FALLBACK_RESPONSES["adventure sport"]
  ELSE IF Contains(kw_one_country, message_lower)
          \/ Contains(kw_rest_of_your_life, message_lower)
    THEN FALLBACK_RESPONSES["one country"]
  ELSE GENERIC_REPLY

(***************************************************************************)
(* Utterances.  Fragments holds every keyword, keywords in other cases,    *)
(* near misses and filler; an utterance is the concatenation of at most    *)
(* MaxFrags fragments, so keywords also arise across fragment boundaries   *)
(* ("memorabl" \o "e") and inside longer words ("tran" \o "sport").        *)
(***************************************************************************)
Fragments ==
  { kw_memorable, kw_experience, kw_hidden, kw_gem, kw_prepare, kw_culture,
    kw_adventure, kw_sport, kw_one_country, kw_rest_of_your_life,
    <<"H", "i", "d", "d", "e", "n">>, <<"G", "E", "M">>,
    <<"M", "E", "M", "O", "R", "A", "B", "L", "E">>, <<"S", "p", "o", "r", "t">>,
    <<"m", "e", "m", "o", "r", "a", "b", "l">>, <<"o", "n", "e">>,
    <<"c", "o", "u", "n", "t", "r", "y">>, <<"t", "r", "a", "n">>,
    <<"r", "e", "s", "t", " ", "o", "f", " ", "y", "o", "u", "r", " ", "l", "i", "f">>,
    <<"e">>, <<" ">>, <<"x">> }

RECURSIVE Concats(_)
Concats(n) ==
  IF n = 0 THEN { << >> }
  ELSE LET shorter == Concats(n - 1) IN
       shorter \cup { u \o f : u \in shorter, f \in Fragments }

Utterances == Concats(MaxFrags)

\* The utterances submitted to the pipeline: one with keywords of two groups
\* in mixed case, one with none.
TurnUtterances ==
  { <<"H", "i", "d", "d", "e", "n">> \o <<" ">> \o <<"M", "E", "M", "O", "R", "A", "B", "L", "E">>,
    <<"x">> }

(***************************************************************************)
(* Configuration read at import time (lines 10-12) and the initialisation  *)
(* of the LangChain chain (lines 15-62).                                   *)
(***************************************************************************)
KeyValues == { None, << >>, <<"k">> }

LLM_CHAIN == <<"LLMChain">>

\* llm_chain after lines 16-62: the chain is built only when the imports
\* succeeded and the key is truthy, and stays None when construction raises.
LlmChainInit(available, key, construction_ok) ==
  IF available /\ Truthy(key)
    THEN IF construction_ok THEN LLM_CHAIN ELSE None
    ELSE None

\* Completions the model backend may return; a completion may be empty.
ModelTexts == { <<"Kyoto in autumn is unforgettable.">>, << >> }

(***************************************************************************)
(* The speech-synthesis endpoint.  A response is a status and a body;      *)
(* status 0 stands for a request that raised (connection error, timeout).  *)
(***************************************************************************)
MURF_VOICE_ID == "Caleb"

URL_ONE == <<"https://murf.ai/user-upload/one.mp3">>
URL_TWO == <<"https://murf.ai/user-upload/two.mp3">>

Urls == { URL_ONE, URL_TWO }

SynthStatuses == { 101, 200, 304, 404, 500 }

\* parse = "invalid": response.json() raises; "list": valid JSON that is not
\* an object, so data.get raises; "object": has says whether the key
\* "audioFile" is present and audioFile is its value (a URL, "" or null).
SynthBodies ==
  { [parse |-> "invalid", has |-> FALSE, audioFile |-> None],
    [parse |-> "list", has |-> FALSE, audioFile |-> None],
    [parse |-> "object", has |-> FALSE, audioFile |-> None] }
  \cup { [parse |-> "object", has |-> TRUE, audioFile |-> a] :
           a \in Urls \cup { << >> } }

Transport == [status |-> 0, body |-> [parse |-> "invalid", has |-> FALSE, audioFile |-> None]]

NoResponse == [status |-> -1, body |-> [parse |-> "invalid", has |-> FALSE, audioFile |-> None]]

SynthResponses == { Transport } \cup [status : SynthStatuses, body : SynthBodies]

MurfConfiguredAlways(key) == TRUE

\* `if MURFAI_API_KEY:` (line 194) and its negation `if not MURFAI_API_KEY:`
\* (line 114).
MurfConfigured(key) == Truthy(key)

\* response.raise_for_status(): HTTPError for a 4xx or 5xx status only.
RaisesForStatus(status) == status >= 400 /\ status < 600

\* data.get("audioFile", "")
AudioFileOf(body) == IF body.has THEN body.audioFile ELSE << >>

\* The dictionary get_generated_audio returns, given the endpoint's response.
get_generated_audio(key, resp) ==
  IF ~MurfConfigured(key)
    THEN [type |-> "ERROR", audio_url |-> << >>,
          response |-> "Murf AI API key not configured"]
  ELSE IF resp.status = 0 \/ RaisesForStatus(resp.status) \/ resp.body.parse = "invalid"
    THEN [type |-> "ERROR", audio_url |-> << >>, response |-> "API Request failed"]
  ELSE IF resp.body.parse = "list"
    THEN [type |-> "ERROR", audio_url |-> << >>, response |-> "Unexpected error"]
  ELSE IF Truthy(AudioFileOf(resp.body))
    THEN [type |-> "SUCCESS", audio_url |-> AudioFileOf(resp.body), response |-> "data"]
  ELSE [type |-> "ERROR", audio_url |-> << >>, response |-> "No audio URL returned"]

\* The payload posted to the synthesis endpoint (lines 121-125, 134); NoRequest
\* when the function returns before posting (lines 114-119).
Payload(text) == [voiceId |-> MURF_VOICE_ID, text |-> text, format |-> "MP3"]

NoRequest == [voiceId |-> "", text |-> None, format |-> ""]

synthesis_request(key, text) == IF ~MurfConfigured(key) THEN NoRequest ELSE Payload(text)

NoEvent == [type |-> "", audio_url |-> << >>, response |-> ""]

(***************************************************************************)
(* The audio host and the filename derived from the URL.                   *)
(***************************************************************************)
Contents == { <<"x">>, <<"x", "y">> }

DownloadStatuses == { 200, 206, 404 }

DownloadResponses ==
  { [status |-> 0, content |-> << >>] }
  \cup { [status |-> s, content |-> << >>] : s \in DownloadStatuses \ {200} }
  \cup [status : {200}, content : Contents]

\* hashlib.md5(u.encode()).hexdigest() of the two URLs, as 32 hex characters.
md5_hexdigest(url) ==
  IF url = URL_ONE
    THEN <<"a", "f", "6", "7", "5", "3", "2", "c", "0", "7", "2", "6", "2", "c", "3", "d",
         "c", "0", "9", "2", "5", "7", "b", "6", "c", "e", "5", "8", "3", "4", "5", "5">>
    ELSE <<"1", "8", "b", "0", "6", "5", "7", "3", "d", "3", "1", "0", "5", "a", "e", "d",
         "4", "f", "6", "8", "3", "1", "6", "1", "c", "e", "2", "9", "2", "a", "a", "2">>

HASH_PREFIX_LEN == 8

\* hashlib.md5(url.encode()).hexdigest()[:8]
filename_hash(url) == SubSeq(md5_hexdigest(url), 1, HASH_PREFIX_LEN)

\* f"audio_{filename_hash}.mp3"
FilenameOf(url) == <<"audio_">> \o filename_hash(url) \o <<".mp3">>

Filenames == { FilenameOf(u) : u \in Urls }

NoDownload == [content |-> None, error |-> << >>, filename |-> << >>]

\* The dictionary download_audio_file returns, given the host's response.
download_audio_file(url, resp) ==
  IF resp.status = 0
    THEN [content |-> None, error |-> <<"Download error">>, filename |-> << >>]
  ELSE IF resp.status # 200
    THEN [content |-> None, error |-> <<"Download failed. Status">>, filename |-> << >>]
  ELSE [content |-> resp.content, error |-> << >>, filename |-> FilenameOf(url)]

\* What open(filename, "wb") followed by f.write(content) leaves in the file.
WriteAppend(old, content) == IF old = None THEN content ELSE old \o content

WriteFile(old, content) == content

\* What a failed open/write leaves: the file untouched (open raised) or
\* truncated with a proper prefix of the content (write raised).
FailedWrites(old, content) ==
  { old } \cup { SubSeq(content, 1, n) : n \in 0..(Len(content) - 1) }

(***************************************************************************)
(* State.                                                                  *)
(*   OPENAI_API_KEY, MURFAI_API_KEY, LANGCHAIN_AVAILABLE, llm_chain:       *)
(*       module globals, fixed after import;                               *)
(*   construction_ok: whether building the chain (lines 37-53) succeeds;   *)
(*   memory: the exchanges held by ConversationBufferMemory;               *)
(*   files: the working directory, filename -> bytes or None;              *)
(*   chatbot, audio_output: the values of the two UI components;           *)
(*   pc: position of the running turn; turns: turns submitted so far;      *)
(*   user_message, history, text_reply, audio_event, download_result:      *)
(*       arguments and locals of the running (or last) call;               *)
(*   result: the pair returned by get_text_and_audio_response, or None;    *)
(*   llm_outcome, write_outcome, synth_request, synth_response,            *)
(*   download_request, trace, names: history of the call, kept to state    *)
(*       the properties: the model call's and write's outcome, the payload *)
(*       posted, the response received (held while get_generated_audio's   *)
(*       result is being examined), the URL fetched, the stages run        *)
(*       in order, what the written file held before the write, and the    *)
(*       filenames produced for each URL so far.                           *)
(***************************************************************************)
VARIABLES OPENAI_API_KEY, MURFAI_API_KEY, LANGCHAIN_AVAILABLE, construction_ok,
          llm_chain, memory, files, chatbot, audio_output, pc, turns,
          user_message, history, text_reply, audio_event, download_result,
          result, llm_outcome, write_outcome, synth_request, synth_response,
          download_request, trace, overwritten, names

config == <<OPENAI_API_KEY, MURFAI_API_KEY, LANGCHAIN_AVAILABLE, construction_ok, llm_chain>>
ui == <<chatbot, audio_output>>
locals == <<user_message, history, text_reply, audio_event, download_result, result>>
ghosts == <<llm_outcome, write_outcome, synth_request, synth_response,
            download_request, trace, overwritten>>
vars == <<config, memory, files, ui, pc, turns, locals, ghosts, names>>

NoResult == [replyText |-> None, audioFilePath |-> None]

\* No call is running: nothing submitted yet, or the last turn returned or
\* raised.
Idle == pc \in {"idle", "done", "raised"}

InitRest ==
  /\ memory = << >>
  /\ files = [f \in Filenames |-> None]
  /\ chatbot = << >>
  /\ audio_output = None
  /\ turns = 0
  /\ history = << >>
  /\ text_reply = None
  /\ audio_event = NoEvent
  /\ download_result = NoDownload
  /\ result = NoResult
  /\ llm_outcome = "none"
  /\ write_outcome = "none"
  /\ synth_request = NoRequest
  /\ synth_response = NoResponse
  /\ download_request = None
  /\ trace = << >>
  /\ overwritten = None
  /\ names = [u \in Urls |-> {}]

Init ==
  /\ OPENAI_API_KEY \in KeyValues
  /\ MURFAI_API_KEY \in KeyValues
  /\ LANGCHAIN_AVAILABLE \in BOOLEAN
  /\ construction_ok \in (IF LANGCHAIN_AVAILABLE /\ Truthy(OPENAI_API_KEY)
                            THEN BOOLEAN ELSE {TRUE})
  /\ llm_chain = LlmChainInit(LANGCHAIN_AVAILABLE, OPENAI_API_KEY, construction_ok)
  /\ pc = "idle"
  /\ user_message = << >>
  /\ InitRest

(***************************************************************************)
(* get_text_response (lines 90-100).  completion is what llm_chain.predict *)
(* does on this turn: one of ModelTexts, or Raised when it raises.         *)
(***************************************************************************)
Raised == <<"raised">>

get_text_response_generic_on_error(chain, key, message, completion) ==
  IF Truthy(chain) /\ Truthy(key)
    THEN IF completion # Raised THEN completion ELSE GENERIC_REPLY
    ELSE get_fallback_response(message)

get_text_response(chain, key, message, completion) ==
  IF Truthy(chain) /\ Truthy(key)
    THEN IF completion # Raised THEN completion ELSE get_fallback_response(message)
    ELSE get_fallback_response(message)

SynthSucceededAlways(event) == TRUE

\* `if audio_event["type"] == "SUCCESS":` (line 197)
SynthSucceeded(event) == event.type = "SUCCESS"

\* `if not download_result["error"]:` (line 203)
DownloadSucceeded(dl) == ~Truthy(dl.error)

(***************************************************************************)
(* Actions.                                                                *)
(***************************************************************************)

\* msg.submit / submit_btn.click: respond -> chat_bot_response ->
\* get_text_and_audio_response is entered with the message and the chatbot's
\* current value.
Submit(m) ==
  /\ Idle
  /\ turns < MaxTurns
  /\ turns' = turns + 1
  /\ pc' = "start"
  /\ user_message' = m
  /\ history' = chatbot
  /\ text_reply' = None
  /\ audio_event' = NoEvent
  /\ download_result' = NoDownload
  /\ result' = NoResult
  /\ llm_outcome' = "none"
  /\ write_outcome' = "none"
  /\ synth_request' = NoRequest
  /\ synth_response' = NoResponse
  /\ download_request' = None
  /\ trace' = << >>
  /\ overwritten' = None
  /\ UNCHANGED <<config, memory, files, ui, names>>

\* Line 191: text_reply = get_text_response(user_message).  A successful
\* predict saves the exchange in the chain's memory; a raising one does not.
GetTextResponse ==
  /\ pc = "start"
  /\ \E completion \in (IF Truthy(llm_chain) /\ Truthy(OPENAI_API_KEY)
                          THEN ModelTexts \cup {Raised} ELSE {Raised}) :
       /\ text_reply' = get_text_response(llm_chain, OPENAI_API_KEY,
                                          user_message, completion)
       /\ IF Truthy(llm_chain) /\ Truthy(OPENAI_API_KEY)
            THEN IF completion # Raised
                   THEN /\ memory' = Append(memory, <<user_message, completion>>)
                        /\ llm_outcome' = "ok"
                   ELSE /\ memory' = memory
                        /\ llm_outcome' = "failed"
            ELSE /\ memory' = memory
                 /\ llm_outcome' = "not_configured"
  /\ pc' = "text_done"
  /\ trace' = Append(trace, "text")
  /\ UNCHANGED <<config, files, ui, turns, user_message, history, audio_event,
                 download_result, result, write_outcome, synth_request,
                 synth_response, download_request, overwritten, names>>

\* Lines 194-195: audio_event = get_generated_audio(text_reply).
GetGeneratedAudio ==
  /\ pc = "text_done"
  /\ MurfConfigured(MURFAI_API_KEY)
  /\ \E resp \in SynthResponses :
       /\ audio_event' = get_generated_audio(MURFAI_API_KEY, resp)
       /\ synth_request' = synthesis_request(MURFAI_API_KEY, text_reply)
       /\ synth_response' = IF synth_request' = NoRequest THEN NoResponse ELSE resp
  /\ pc' = "synth_done"
  /\ trace' = Append(trace, "synth")
  /\ UNCHANGED <<config, memory, files, ui, turns, user_message, history,
                 text_reply, download_result, result, llm_outcome,
                 write_outcome, download_request, overwritten, names>>

\* Lines 197-201: download_result = download_audio_file(audio_url).
DownloadAudioFile ==
  /\ pc = "synth_done"
  /\ SynthSucceeded(audio_event)
  /\ \E resp \in DownloadResponses :
       LET dl == download_audio_file(audio_event.audio_url, resp) IN
       /\ download_result' = dl
       /\ names' = IF DownloadSucceeded(dl) /\ audio_event.audio_url \in Urls
                     THEN [names EXCEPT ![audio_event.audio_url] = @ \cup {dl.filename}]
                     ELSE names
  /\ download_request' = audio_event.audio_url
  /\ synth_response' = NoResponse
  /\ pc' = "download_done"
  /\ trace' = Append(trace, "download")
  /\ UNCHANGED <<config, memory, files, ui, turns, user_message, history,
                 text_reply, audio_event, result, llm_outcome, write_outcome,
                 synth_request, overwritten>>

\* Lines 203-208 and, when the write succeeds, the rest of the handler
\* (lines 215-227, 267-269): the file is written and the pair (text_reply,
\* filename) returned, the exchange is appended to the history and shown; a
\* raising open or write leaves the function, and the handler, by exception.
SaveAudioFile ==
  /\ pc = "download_done"
  /\ DownloadSucceeded(download_result)
  /\ trace' = Append(trace, "write")
  /\ overwritten' = files[download_result.filename]
  /\ LET filename == download_result.filename IN
     \/ /\ files' = [files EXCEPT ![filename] = WriteFile(@, download_result.content)]
        /\ write_outcome' = "ok"
        /\ result' = [replyText |-> text_reply, audioFilePath |-> filename]
        /\ chatbot' = Append(history, <<user_message, text_reply>>)
        /\ audio_output' = IF Truthy(filename) /\ files'[filename] # None
                             THEN filename ELSE None
        /\ pc' = "done"
     \/ /\ \E left \in FailedWrites(files[filename], download_result.content) :
             files' = [files EXCEPT ![filename] = left]
        /\ write_outcome' = "failed"
        /\ result' = NoResult
        /\ UNCHANGED ui
        /\ pc' = "raised"
  /\ UNCHANGED <<config, memory, turns, user_message, history, text_reply,
                 audio_event, download_result, llm_outcome, synth_request,
                 synth_response, download_request, names>>

\* Line 211, `return text_reply, None`, reached when Murf is not configured,
\* synthesis did not succeed or the download has an error; then the rest of
\* the handler (lines 215-227, 267-269).
ReturnTextOnly ==
  /\ \/ pc = "text_done" /\ ~MurfConfigured(MURFAI_API_KEY)
     \/ pc = "synth_done" /\ ~SynthSucceeded(audio_event)
     \/ pc = "download_done" /\ ~DownloadSucceeded(download_result)
  /\ result' = [replyText |-> text_reply, audioFilePath |-> None]
  /\ chatbot' = Append(history, <<user_message, text_reply>>)
  /\ audio_output' = None
  /\ synth_response' = NoResponse
  /\ pc' = "done"
  /\ UNCHANGED <<config, memory, files, turns, user_message, history,
                 text_reply, audio_event, download_result, llm_outcome,
                 write_outcome, synth_request, download_request, trace,
                 overwritten, names>>

ClearAll ==
  /\ chatbot' = << >>
  /\ audio_output' = None
  /\ memory' = << >>
  /\ UNCHANGED <<config, files, pc, turns, locals, ghosts, names>>

\* clear_btn.click (lines 283-286): lambda: ([], None) into chatbot and
\* audio_output.
Clear ==
  /\ chatbot' = << >>
  /\ audio_output' = None
  /\ UNCHANGED <<config, memory, files, pc, turns, locals, ghosts, names>>

Next ==
  \/ \E m \in TurnUtterances : Submit(m)
  \/ GetTextResponse
  \/ GetGeneratedAudio
  \/ DownloadAudioFile
  \/ SaveAudioFile
  \/ ReturnTextOnly
  \/ Clear

Spec == Init /\ [][Next]_vars

(***************************************************************************)
(* The Fallback Responder alone: every utterance of Utterances is given to *)
(* get_fallback_response once.                                             *)
(***************************************************************************)
InitFallback ==
  /\ OPENAI_API_KEY = None
  /\ MURFAI_API_KEY = None
  /\ LANGCHAIN_AVAILABLE = FALSE
  /\ construction_ok = TRUE
  /\ llm_chain = None
  /\ pc = "fb_call"
  /\ user_message \in Utterances
  /\ InitRest

FallbackRespond ==
  /\ pc = "fb_call"
  /\ text_reply' = get_fallback_response(user_message)
  /\ pc' = "fb_done"
  /\ UNCHANGED <<config, memory, files, ui, turns, user_message, history,
                 audio_event, download_result, result, ghosts, names>>

NextFallback == FallbackRespond

SpecFallback == InitFallback /\ [][NextFallback]_vars

(***************************************************************************)
(* Properties.                                                             *)
(***************************************************************************)
TurnEnded == pc \in {"done", "raised"}

Returned == pc = "done"

\* Synthesis returned Success, download returned Success and the bytes are
\* completely in the file of the returned name.
ChainSucceeded ==
  /\ audio_event.type = "SUCCESS"
  /\ download_result.error = << >>
  /\ download_result.content # None
  /\ write_outcome = "ok"
  /\ download_result.filename \in Filenames
  /\ files[download_result.filename] = download_result.content

\* C1: every turn ends by returning a result whose audioFilePath is present
\* if and only if synthesis succeeded, download succeeded and the downloaded
\* bytes were completely written to the file of that name; in every other
\* case a result with audioFilePath absent is returned.
C1_AudioPathIffChainSucceeded ==
  TurnEnded =>
    /\ Returned
    /\ Truthy(result.audioFilePath) <=> ChainSucceeded
    /\ Truthy(result.audioFilePath) => result.audioFilePath = download_result.filename

\* C2: when synthesis and download succeed but the write fails, the turn
\* does not raise: it returns the reply text with audioFilePath absent.
C2_WriteFailureReturnsTextOnly ==
  write_outcome = "failed" =>
    /\ Returned
    /\ result = [replyText |-> text_reply, audioFilePath |-> None]

\* C3: whatever the configuration and the outcomes of the stages, every turn
\* ends by returning a result whose replyText is a non-empty string.
C3_EveryTurnReturnsNonEmptyText ==
  TurnEnded => Returned /\ Truthy(result.replyText)

\* No model backend is configured: the credential is missing, the library is
\* unavailable or the construction of the chain failed.
BackendUnconfigured ==
  \/ ~Truthy(OPENAI_API_KEY)
  \/ ~LANGCHAIN_AVAILABLE
  \/ ~construction_ok

TextStageDone == Len(trace) >= 1

\* C4: if no model backend is configured or the model call failed on this
\* turn, the reply text, and the replyText returned, is the Fallback
\* Responder's output for the turn's utterance, and the turn does not end by
\* the backend's error.
C4_FallbackWhenBackendUnavailable ==
  (TextStageDone /\ (BackendUnconfigured \/ llm_outcome = "failed")) =>
    /\ text_reply = get_fallback_response(user_message)
    /\ Returned => result.replyText = get_fallback_response(user_message)
    /\ pc = "raised" => write_outcome = "failed"

C4_Witness ==
  /\ Returned
  /\ llm_outcome = "failed"
  /\ user_message = <<"H", "i", "d", "d", "e", "n">> \o <<" ">>
                      \o <<"M", "E", "M", "O", "R", "A", "B", "L", "E">>
  /\ result.replyText = FALLBACK_RESPONSES["travel experience"]

CredentialAbsent == ~Truthy(MURFAI_API_KEY)

\* C5: with the synthesis credential absent, no request is ever sent to the
\* synthesis endpoint or to the audio host, no file is written, every turn
\* returns audioFilePath absent, and get_generated_audio itself returns the
\* "not configured" error without posting a request, whatever the endpoint
\* would answer.
C5_NoSynthesisWithoutCredential ==
  CredentialAbsent =>
    /\ synth_request = NoRequest
    /\ download_request = None
    /\ write_outcome = "none"
    /\ \A f \in Filenames : files[f] = None
    /\ pc # "raised"
    /\ Returned => result.audioFilePath = None
    /\ \A resp \in SynthResponses :
         get_generated_audio(MURFAI_API_KEY, resp) =
           [type |-> "ERROR", audio_url |-> << >>,
            response |-> "Murf AI API key not configured"]
    /\ \A m \in TurnUtterances :
         synthesis_request(MURFAI_API_KEY, get_fallback_response(m)) = NoRequest

C5_Witness ==
  /\ CredentialAbsent
  /\ Returned
  /\ turns >= 2
  /\ result.audioFilePath = None
  /\ Truthy(result.replyText)

\* C6: get_generated_audio returns SUCCESS only for a 2xx response whose body
\* has a non-empty audio field, and then with that non-empty URL; a failed
\* request, any other status, an unparsable body and an absent or empty
\* field give ERROR with an empty URL.
C6_SuccessOnlyFor2xxWithAudioField ==
  LET ok == /\ synth_response.status >= 200
            /\ synth_response.status <= 299
            /\ synth_response.body.parse = "object"
            /\ synth_response.body.has
            /\ Truthy(synth_response.body.audioFile)
  IN  pc = "synth_done" =>
        IF ok THEN /\ audio_event.type = "SUCCESS"
                   /\ audio_event.audio_url = synth_response.body.audioFile
                   /\ Truthy(audio_event.audio_url)
              ELSE /\ audio_event.type = "ERROR"
                   /\ audio_event.audio_url = << >>

\* The keyword groups of the Fallback Responder in priority order, and the
\* reply of each.
Groups ==
  << {kw_memorable, kw_experience}, {kw_hidden, kw_gem}, {kw_prepare, kw_culture},
     {kw_adventure, kw_sport}, {kw_one_country, kw_rest_of_your_life} >>

GroupReply ==
  << FALLBACK_RESPONSES["travel experience"], FALLBACK_RESPONSES["hidden gem"],
     FALLBACK_RESPONSES["prepare for trip"], FALLBACK_RESPONSES["adventure sport"],
     FALLBACK_RESPONSES["one country"] >>

\* kw occurs in u at some position when the case of letters is ignored.
OccursIgnoringCase(kw, u) ==
  \E i \in 0..(Len(u) - Len(kw)) :
    \A j \in 1..Len(kw) : LowerChar(u[i + j]) = LowerChar(kw[j])

GroupMatches(g, u) == \E kw \in Groups[g] : OccursIgnoringCase(kw, u)

\* C7: the Fallback Responder answers every utterance with the reply of the
\* first group, in the order memorable/experience, hidden/gem,
\* prepare/culture, adventure/sport, one country/rest of your life, one of
\* whose keywords occurs in the utterance ignoring case, and with the generic
\* reply if and only if no group matches.
C7_FirstMatchingGroupWins ==
  pc = "fb_done" =>
    /\ \A g \in 1..Len(Groups) :
         (GroupMatches(g, user_message)
            /\ \A h \in 1..(g - 1) : ~GroupMatches(h, user_message))
         => text_reply = GroupReply[g]
    /\ text_reply = GENERIC_REPLY
         <=> \A g \in 1..Len(Groups) : ~GroupMatches(g, user_message)

C7_Witness ==
  /\ pc = "fb_done"
  /\ user_message = <<"H", "i", "d", "d", "e", "n">> \o kw_memorable
  /\ text_reply = FALLBACK_RESPONSES["travel experience"]

\* C8: every successful download of a URL produces the same filename, and a
\* turn that persists its audio leaves, under that one name, exactly the
\* bytes it downloaded, whatever the file held before.
C8_SameUrlSameFileOverwritten ==
  /\ \A u \in Urls : Cardinality(names[u]) <= 1
  /\ (Returned /\ Truthy(result.audioFilePath)) =>
       /\ names[audio_event.audio_url] = {result.audioFilePath}
       /\ files[result.audioFilePath] = download_result.content

\* The second of two turns persisted the audio of a URL over the different
\* bytes a complete earlier write had left under the same name.
C8_Witness ==
  /\ Returned
  /\ turns >= 2
  /\ Truthy(result.audioFilePath)
  /\ overwritten = <<"x", "y">>
  /\ files[result.audioFilePath] = <<"x">>

\* C9: the conversation memory changes only by a successful model
\* generation, which appends that turn's (utterance, reply) pair; every other
\* step, among them a failed model call, a fallback reply, the synthesis,
\* download and write steps and the clear action, leaves it unchanged.
C9_MemoryChangesOnlyOnSuccessfulGeneration ==
  [][ /\ (pc = "start" /\ llm_outcome' = "ok")
           => memory' = Append(memory, <<user_message, text_reply'>>)
      /\ ~(pc = "start" /\ llm_outcome' = "ok") => memory' = memory ]_vars

\* After a successful generation, a later turn whose model call failed has
\* returned and the chat has been cleared.
C9_Witness ==
  /\ Returned
  /\ turns >= 2
  /\ llm_outcome = "failed"
  /\ chatbot = << >>
  /\ Len(memory) = 1

StageOrder == <<"text", "synth", "download", "write">>

IsPrefix(a, b) == Len(a) <= Len(b) /\ a = SubSeq(b, 1, Len(a))

StagesInOrder ==
  /\ IsPrefix(trace, StageOrder)
  /\ Len(trace) >= 2 =>
       /\ text_reply # None
       /\ synth_request = Payload(text_reply)
  /\ Len(trace) < 2 => synth_request = NoRequest
  /\ Len(trace) >= 3 =>
       /\ audio_event.type = "SUCCESS"
       /\ download_request = audio_event.audio_url
  /\ Len(trace) < 3 => download_request = None
  /\ Len(trace) >= 4 =>
       /\ download_result.error = << >>
       /\ write_outcome # "none"
  /\ Len(trace) < 4 => write_outcome = "none"

\* C10: within a turn the stages run in the order text, synthesis, download,
\* write, each at most once; the synthesis request carries the reply text,
\* the download uses the URL of a successful synthesis, the write follows a
\* successful download, and a turn starts only when the previous one has
\* ended.
C10_StagesInOrderOncePerTurn ==
  [][ /\ StagesInOrder
      /\ StagesInOrder'
      /\ turns' # turns => Idle
      /\ ~Idle => user_message' = user_message ]_vars

C10_Witness ==
  /\ Returned
  /\ turns >= 2
  /\ trace = StageOrder

====
